---- MODULE Spec2Model ----
(***************************************************************************)
(* The request-gating pipeline of the GCS image upload service:            *)
(* MetricsMiddleware(CORSMiddleware(mux)), with AuthMiddleware on the      *)
(* protected routes, the client-identity resolver, the IP allowlist, the   *)
(* CORS policy and the Prometheus counters.                                *)
(*                                                                         *)
(* Strings are TLA+ strings; a header that is absent reads as "" exactly   *)
(* as http.Header.Get returns it.                                          *)
(***************************************************************************)
EXTENDS Bags, FiniteSets, Integers, Sequences, TLC

(***************************************************************************)
(* strings: the operations of package strings the code uses                *)
(***************************************************************************)

\* s[i] as a one-character string
Char(s, i) == SubSeq(s, i, i)

\* strings.IndexByte: the first position of character ch in s, 0 when absent
IndexByte(s, ch) ==
  LET hits == {i \in 1..Len(s) : Char(s, i) = ch}
  IN IF hits = {} THEN 0 ELSE CHOOSE i \in hits : \A j \in hits : i <= j

\* strings.LastIndexByte
LastIndexByte(s, ch) ==
  LET hits == {i \in 1..Len(s) : Char(s, i) = ch}
  IN IF hits = {} THEN 0 ELSE CHOOSE i \in hits : \A j \in hits : i >= j

\* strings.Contains(s, ch) for a one-character ch
Contains(s, ch) == IndexByte(s, ch) # 0

IsSpace(ch) == ch \in {" ", "\t", "\n", "\r"}

\* strings.TrimSpace
TrimSpace(s) ==
  LET keep == {i \in 1..Len(s) : ~IsSpace(Char(s, i))}
  IN IF keep = {} THEN ""
     ELSE LET lo == CHOOSE i \in keep : \A j \in keep : i <= j
              hi == CHOOSE i \in keep : \A j \in keep : i >= j
          IN SubSeq(s, lo, hi)

\* strings.Split(s, sep) for a one-character sep: always at least one element
RECURSIVE Split(_, _)
Split(s, sep) ==
  LET i == IndexByte(s, sep)
  IN IF i = 0 THEN <<s>>
     ELSE <<SubSeq(s, 1, i - 1)>> \o Split(SubSeq(s, i + 1, Len(s)), sep)

Digits == <<"0", "1", "2", "3", "4", "5", "6", "7", "8", "9">>

IsDigit(ch) == \E d \in 1..10 : Digits[d] = ch

DigitVal(ch) == (CHOOSE d \in 1..10 : Digits[d] = ch) - 1

AllDigits(s) == \A i \in 1..Len(s) : IsDigit(Char(s, i))

\* dtoi of package net: the value of a string of decimal digits, or -1 once it
\* reaches 0xFFFFFF ("big")
RECURSIVE DtoiFrom(_, _, _)
DtoiFrom(s, i, n) ==
  IF i > Len(s) THEN n
  ELSE LET m == 10 * n + DigitVal(Char(s, i))
       IN IF m >= 16777215 THEN -1 ELSE DtoiFrom(s, i + 1, m)

Dtoi(s) == DtoiFrom(s, 1, 0)

(***************************************************************************)
(* net: ParseIP, ParseCIDR, IPNet.Contains and SplitHostPort on IPv4       *)
(* literals (an IP is the tuple of its four octets)                        *)
(***************************************************************************)

\* one field of a dotted-decimal address: 1 to 3 digits, no leading zero, <= 255
OctetOk(f) ==
  /\ Len(f) \in 1..3
  /\ AllDigits(f)
  /\ (Len(f) > 1 => Char(f, 1) # "0")
  /\ Dtoi(f) <= 255

NoIP == [ok |-> FALSE, ip |-> <<0, 0, 0, 0>>]

\* net.ParseIP: [ok, ip]; ok is FALSE where ParseIP returns nil
ParseIP(s) ==
  LET f == Split(s, ".")
  IN IF Len(f) = 4 /\ \A i \in 1..4 : OctetOk(f[i])
     THEN [ok |-> TRUE, ip |-> [i \in 1..4 |-> Dtoi(f[i])]]
     ELSE NoIP

Pow2(n) == CASE n = 0 -> 1 [] n = 1 -> 2 [] n = 2 -> 4 [] n = 3 -> 8 [] n = 4 -> 16
             [] n = 5 -> 32 [] n = 6 -> 64 [] n = 7 -> 128 [] OTHER -> 256

\* how many of the prefix's n bits fall into octet i
MaskBits(n, i) ==
  LET b == n - 8 * (i - 1) IN IF b < 0 THEN 0 ELSE IF b > 8 THEN 8 ELSE b

\* ip.Mask(CIDRMask(n, 32))
MaskIP(ip, n) ==
  [i \in 1..4 |-> (ip[i] \div Pow2(8 - MaskBits(n, i))) * Pow2(8 - MaskBits(n, i))]

NoNet == [ok |-> FALSE, ip |-> <<0, 0, 0, 0>>, bits |-> 0]

\* net.ParseCIDR: [ok, ip, bits]; ok is FALSE where ParseCIDR returns an error
ParseCIDR(s) ==
  LET i    == IndexByte(s, "/")
      addr == SubSeq(s, 1, i - 1)
      mask == SubSeq(s, i + 1, Len(s))
  IN IF i = 0 THEN NoNet
     ELSE IF ~ParseIP(addr).ok THEN NoNet
     ELSE IF mask = "" \/ ~AllDigits(mask) THEN NoNet
     ELSE IF Dtoi(mask) < 0 \/ Dtoi(mask) > 32 THEN NoNet
     ELSE [ok |-> TRUE, ip |-> MaskIP(ParseIP(addr).ip, Dtoi(mask)), bits |-> Dtoi(mask)]

\* (*IPNet).Contains
NetContains(ipNet, ip) == MaskIP(ip, ipNet.bits) = ipNet.ip

\* net.SplitHostPort: [host, err]
SplitHostPort(hostport) ==
  LET i       == LastIndexByte(hostport, ":")
      end     == IndexByte(hostport, "]")
      bracket == Len(hostport) > 0 /\ Char(hostport, 1) = "["
      host    == IF bracket THEN SubSeq(hostport, 2, end - 1) ELSE SubSeq(hostport, 1, i - 1)
      restJ   == IF bracket THEN SubSeq(hostport, 2, Len(hostport)) ELSE hostport
      restK   == IF bracket THEN SubSeq(hostport, end + 1, Len(hostport)) ELSE hostport
      failed  == [host |-> "", err |-> TRUE]
  IN IF i = 0 THEN failed
     ELSE IF bracket /\ (end = 0 \/ end + 1 # i) THEN failed
     ELSE IF ~bracket /\ Contains(host, ":") THEN failed
     ELSE IF Contains(restJ, "[") \/ Contains(restK, "]") THEN failed
     ELSE [host |-> host, err |-> FALSE]

(***************************************************************************)
(* config.go: LoadConfig                                                   *)
(***************************************************************************)

\* getEnv: the variable's value, the default when it is unset or empty
getEnv(value, defaultValue) == IF value = "" THEN defaultValue ELSE value

\* a comma-separated list, each entry trimmed
TrimAll(list) == [i \in 1..Len(list) |-> TrimSpace(list[i])]

\* LoadConfig on the environment env = [GCS_API_KEY_1, ALLOWED_IPS, ALLOWED_ORIGINS]
LoadConfig(env) ==
  [ APIKey1        |-> getEnv(env.GCS_API_KEY_1, ""),
    AllowedIPs     |-> IF getEnv(env.ALLOWED_IPS, "") # ""
                       THEN TrimAll(Split(getEnv(env.ALLOWED_IPS, ""), ","))
                       ELSE << >>,
    AllowedOrigins |-> TrimAll(Split(getEnv(env.ALLOWED_ORIGINS, "*"), ",")) ]

(***************************************************************************)
(* middleware.go: getClientIP, isIPAllowed, isOriginAllowed                *)
(***************************************************************************)

\* mutant: the client IP is the peer address, whatever the headers say
getClientIP_PeerOnly(r) ==
  IF SplitHostPort(r.remoteAddr).err THEN r.remoteAddr
  ELSE SplitHostPort(r.remoteAddr).host

\* getClientIP: CF-Connecting-IP > X-Real-IP > X-Forwarded-For > RemoteAddr
getClientIP(r) ==
  IF r.cfConnectingIP # "" THEN r.cfConnectingIP
  ELSE IF r.xRealIP # "" THEN r.xRealIP
  ELSE IF r.xForwardedFor # "" THEN TrimSpace(Split(r.xForwardedFor, ",")[1])
  ELSE IF SplitHostPort(r.remoteAddr).err THEN r.remoteAddr
  ELSE SplitHostPort(r.remoteAddr).host

\* the loop of isIPAllowed from entry i on
RECURSIVE isIPAllowedFrom(_, _, _)
isIPAllowedFrom(clientIP, allowedIPs, i) ==
  IF i > Len(allowedIPs) THEN FALSE
  ELSE IF Contains(allowedIPs[i], "/")
       THEN IF ~ParseCIDR(allowedIPs[i]).ok
            THEN isIPAllowedFrom(clientIP, allowedIPs, i + 1)
            ELSE IF NetContains(ParseCIDR(allowedIPs[i]), ParseIP(clientIP).ip)
                 THEN TRUE
                 ELSE isIPAllowedFrom(clientIP, allowedIPs, i + 1)
       ELSE IF clientIP = allowedIPs[i]
            THEN TRUE
            ELSE isIPAllowedFrom(clientIP, allowedIPs, i + 1)

\* mutant: isIPAllowed without the ParseIP check on the client IP
isIPAllowed_Unparsed(clientIP, allowedIPs) == isIPAllowedFrom(clientIP, allowedIPs, 1)

\* isIPAllowed
isIPAllowed(clientIP, allowedIPs) ==
  IF ~ParseIP(clientIP).ok THEN FALSE
  ELSE isIPAllowedFrom(clientIP, allowedIPs, 1)

\* mutant: isOriginAllowed taking any "*" entry for the wildcard
isOriginAllowed_AnyStar(origin, allowedOrigins) ==
  \E i \in 1..Len(allowedOrigins) : allowedOrigins[i] \in {"*", origin}

\* isOriginAllowed
isOriginAllowed(origin, allowedOrigins) ==
  IF Len(allowedOrigins) = 0 \/ (Len(allowedOrigins) = 1 /\ allowedOrigins[1] = "*")
  THEN TRUE
  ELSE \E i \in 1..Len(allowedOrigins) : origin = allowedOrigins[i]

(***************************************************************************)
(* The server: state                                                       *)
(***************************************************************************)

VARIABLES
  config,                \* *Config, read-only once LoadConfig has returned
  inbox,                 \* the requests still to arrive, in arrival order
  conns,                 \* per connection: the request being served and its response
  httpRequestsTotal,     \* CounterVec (method, endpoint, status_code, hostname, client_ip)
  httpRequestDuration,   \* HistogramVec (method, endpoint): observations per cell
  signedURLCreatedTotal, \* CounterVec (hostname, client_ip)
  finished,              \* history: the exchanges whose response has been sent
  rw                     \* a *responseWriter and the WriteHeader calls made on it

vars == <<config, inbox, conns, httpRequestsTotal, httpRequestDuration, signedURLCreatedTotal,
          finished, rw>>

\* the connections served concurrently, one goroutine each
Conns == {1, 2}

\* requests handed to the server in a concurrent run
MaxRequests == 2

ProtectedPaths == {"/upload", "/upload-dev", "/signedurl", "/signedurl-dev"}
PublicPaths == {"/health", "/metrics"}

\* a connection with no request
Idle ==
  [ st |-> "idle", r |-> "", route |-> "", wrapped |-> FALSE, timed |-> FALSE,
    statusCode |-> 0, clientIP |-> "", status |-> 0, header |-> << >>, body |-> "",
    closed |-> FALSE, handler |-> "", trace |-> << >> ]

\* the server has read request r: MetricsMiddleware is about to run
Fresh(r) == [Idle EXCEPT !.st = "metrics", !.r = r]

(***************************************************************************)
(* http.ResponseWriter                                                     *)
(***************************************************************************)

\* w.Header().Set(key, value)
HeaderSet(rs, key, value) == [rs EXCEPT !.header = (key :> value) @@ rs.header]

\* (*responseWriter).WriteHeader on the wrapper, http's own on the bare writer: the
\* wrapper records every code it is given, the wire keeps the first
WriteHeader(rs, code) ==
  [rs EXCEPT !.statusCode = IF rs.wrapped THEN code ELSE rs.statusCode,
             !.status = IF rs.status = 0 THEN code ELSE rs.status]

\* w.Write(body): an implicit WriteHeader(200) on the wire when none was written
Write(rs, body) ==
  [rs EXCEPT !.status = IF rs.status = 0 THEN 200 ELSE rs.status, !.body = body]

\* w.(http.Hijacker): responseWriter embeds the http.ResponseWriter interface, so it
\* has Header, Write and WriteHeader only; the bare writer hijacks on HTTP/1.x
IsHijacker(rs) == ~rs.wrapped /\ rs.r.hijack # "none"

(***************************************************************************)
(* The stages of one request, each a function of the connection's state    *)
(***************************************************************************)

Stage(rs, name) == [rs EXCEPT !.trace = Append(rs.trace, name)]

\* where control goes once next.ServeHTTP returns into MetricsMiddleware: the
\* request counter, or straight out for the metrics endpoint
\* mutant: only a GET of /metrics is left out of the instrumentation
Unwind_GetOnly(rs) ==
  IF rs.r.path = "/metrics" /\ rs.r.method = "GET" THEN "finish" ELSE "count"

Unwind(rs) == IF rs.r.path = "/metrics" THEN "finish" ELSE "count"

\* MetricsMiddleware up to next.ServeHTTP
MetricsMiddlewareEnter(rs) ==
  IF rs.r.path = "/metrics"
  THEN [Stage(rs, "metrics") EXCEPT !.st = "cors"]
  ELSE [Stage(rs, "metrics") EXCEPT !.st = "cors", !.timed = TRUE,
          !.clientIP = getClientIP(rs.r), !.wrapped = TRUE, !.statusCode = 200]

\* mutant: CORSMiddleware that does not answer the preflight itself
CORSMiddleware_NoPreflight(allowedOrigins, rs) ==
  LET a == IF isOriginAllowed(rs.r.origin, allowedOrigins)
           THEN HeaderSet(rs, "Access-Control-Allow-Origin", rs.r.origin)
           ELSE rs
      b == HeaderSet(a, "Access-Control-Allow-Methods", "POST, GET, OPTIONS")
      c == HeaderSet(b, "Access-Control-Allow-Headers", "Content-Type, X-API-Key")
      d == Stage(HeaderSet(c, "Access-Control-Max-Age", "3600"), "cors")
  IN [d EXCEPT !.st = "mux"]

\* mutant: CORSMiddleware that rejects a request whose Origin is not allowed
CORSMiddleware_HardDeny(allowedOrigins, rs) ==
  LET b == HeaderSet(rs, "Access-Control-Allow-Methods", "POST, GET, OPTIONS")
      c == HeaderSet(b, "Access-Control-Allow-Headers", "Content-Type, X-API-Key")
      d == Stage(HeaderSet(c, "Access-Control-Max-Age", "3600"), "cors")
  IN IF ~isOriginAllowed(rs.r.origin, allowedOrigins)
     THEN [WriteHeader(d, 403) EXCEPT !.st = Unwind(rs)]
     ELSE IF rs.r.method = "OPTIONS"
     THEN [WriteHeader(HeaderSet(d, "Access-Control-Allow-Origin", rs.r.origin), 204)
             EXCEPT !.st = Unwind(rs)]
     ELSE [HeaderSet(d, "Access-Control-Allow-Origin", rs.r.origin) EXCEPT !.st = "mux"]

\* CORSMiddleware
CORSMiddleware(allowedOrigins, rs) ==
  LET a == IF isOriginAllowed(rs.r.origin, allowedOrigins)
           THEN HeaderSet(rs, "Access-Control-Allow-Origin", rs.r.origin)
           ELSE rs
      b == HeaderSet(a, "Access-Control-Allow-Methods", "POST, GET, OPTIONS")
      c == HeaderSet(b, "Access-Control-Allow-Headers", "Content-Type, X-API-Key")
      d == Stage(HeaderSet(c, "Access-Control-Max-Age", "3600"), "cors")
  IN IF rs.r.method = "OPTIONS"
     THEN [WriteHeader(d, 204) EXCEPT !.st = Unwind(rs)]
     ELSE [d EXCEPT !.st = "mux"]

\* mutant: without a secret, /upload is still registered behind AuthMiddleware
Routes_UploadAlwaysGated(cfg) ==
  LET public == ("/health" :> [handler |-> "HandleHealth", auth |-> FALSE])
                @@ ("/metrics" :> [handler |-> "promhttp", auth |-> FALSE])
  IN IF cfg.APIKey1 # ""
     THEN public
          @@ ("/upload" :> [handler |-> "HandleUpload(prod)", auth |-> TRUE])
          @@ ("/signedurl" :> [handler |-> "HandleGenerateSignedUrl(prod)", auth |-> TRUE])
          @@ ("/upload-dev" :> [handler |-> "HandleUpload(dev)", auth |-> TRUE])
          @@ ("/signedurl-dev" :> [handler |-> "HandleGenerateSignedUrl(dev)", auth |-> TRUE])
     ELSE public
          @@ ("/upload" :> [handler |-> "HandleUpload(prod)", auth |-> TRUE])

\* main: the routes registered on authenticatedMux, path -> [handler, auth]
Routes(cfg) ==
  LET public == ("/health" :> [handler |-> "HandleHealth", auth |-> FALSE])
                @@ ("/metrics" :> [handler |-> "promhttp", auth |-> FALSE])
  IN IF cfg.APIKey1 # ""
     THEN public
          @@ ("/upload" :> [handler |-> "HandleUpload(prod)", auth |-> TRUE])
          @@ ("/signedurl" :> [handler |-> "HandleGenerateSignedUrl(prod)", auth |-> TRUE])
          @@ ("/upload-dev" :> [handler |-> "HandleUpload(dev)", auth |-> TRUE])
          @@ ("/signedurl-dev" :> [handler |-> "HandleGenerateSignedUrl(dev)", auth |-> TRUE])
     ELSE public
          @@ ("/upload" :> [handler |-> "HandleUpload(prod)", auth |-> FALSE])

\* http.NotFound, the mux's answer for a path with no route
NotFound(rs) ==
  LET a == HeaderSet(rs, "Content-Type", "text/plain; charset=utf-8")
      b == HeaderSet(a, "X-Content-Type-Options", "nosniff")
  IN Write(WriteHeader(b, 404), "404 page not found\n")

\* (*ServeMux).ServeHTTP on authenticatedMux
ServeMux(cfg, rs) ==
  LET routes == Routes(cfg)
      s      == Stage(rs, "mux")
  IN IF rs.r.path \notin DOMAIN routes
     THEN [NotFound(s) EXCEPT !.st = Unwind(rs)]
     ELSE [s EXCEPT !.route = routes[rs.r.path].handler,
                    !.st = IF routes[rs.r.path].auth THEN "apikey" ELSE "handler"]

\* AuthMiddleware's stealth denial: close the hijacked connection, else a bare 404
Deny(rs) ==
  IF IsHijacker(rs) /\ rs.r.hijack = "ok"
  THEN [rs EXCEPT !.closed = TRUE, !.st = Unwind(rs)]
  ELSE [WriteHeader(rs, 404) EXCEPT !.st = Unwind(rs)]

\* mutant: AuthMiddleware that lets a request without X-API-Key through
AuthMiddlewareKey_EmptyKeyPasses(apiKey, allowedIPs, rs) ==
  LET s == Stage(rs, "apikey")
  IN IF rs.r.apiKey # "" /\ rs.r.apiKey # apiKey
     THEN Deny(s)
     ELSE [s EXCEPT !.st = IF Len(allowedIPs) > 0 THEN "ip" ELSE "handler"]

\* mutant: AuthMiddleware whose key denial lacks its return
AuthMiddlewareKey_NoReturn(apiKey, allowedIPs, rs) ==
  LET s == Stage(rs, "apikey")
      t == IF rs.r.apiKey = "" \/ rs.r.apiKey # apiKey THEN Deny(s) ELSE s
  IN [t EXCEPT !.st = IF Len(allowedIPs) > 0 THEN "ip" ELSE "handler"]

\* AuthMiddleware: the API key check
AuthMiddlewareKey(apiKey, allowedIPs, rs) ==
  LET s == Stage(rs, "apikey")
  IN IF rs.r.apiKey = "" \/ rs.r.apiKey # apiKey
     THEN Deny(s)
     ELSE [s EXCEPT !.st = IF Len(allowedIPs) > 0 THEN "ip" ELSE "handler"]

\* AuthMiddleware: the IP whitelist check
AuthMiddlewareIP(allowedIPs, rs) ==
  LET s == Stage(rs, "ip")
  IN IF ~isIPAllowed(getClientIP(rs.r), allowedIPs)
     THEN Deny(s)
     ELSE [s EXCEPT !.st = "handler"]

JSON(rs) == HeaderSet(rs, "Content-Type", "application/json")

\* HandleHealth
HandleHealth(rs) == Write(JSON(rs), "{status: healthy}")

\* HandleUpload; backend is what the body and the storage client make of the request
HandleUpload(rs) ==
  IF rs.r.method # "POST"
  THEN Write(WriteHeader(JSON(rs), 405), "{error: Method not allowed. Use POST.}")
  ELSE IF rs.r.backend = "malformed"
  THEN Write(WriteHeader(JSON(rs), 400), "{error: bad request}")
  ELSE IF rs.r.backend = "upstream"
  THEN Write(WriteHeader(JSON(rs), 500), "{error: Failed to upload image}")
  ELSE Write(WriteHeader(JSON(rs), 200), "{success: Image uploaded successfully}")

\* mutant: the signed-URL counter is incremented before the generation error is tested
SignedUrlSucceeds_BeforeErrCheck(rs) == rs.r.method = "POST" /\ rs.r.backend # "malformed"

\* HandleGenerateSignedUrl reaches IncrementSignedURLCounter
SignedUrlSucceeds(rs) == rs.r.method = "POST" /\ rs.r.backend = "ok"

\* HandleGenerateSignedUrl, the response
HandleGenerateSignedUrl(rs) ==
  IF rs.r.method # "POST"
  THEN Write(WriteHeader(JSON(rs), 405), "{error: Method not allowed. Use POST.}")
  ELSE IF rs.r.backend = "malformed"
  THEN Write(WriteHeader(JSON(rs), 400), "{error: bad request}")
  ELSE IF rs.r.backend = "upstream"
  THEN Write(WriteHeader(JSON(rs), 500), "{error: Failed to generate signed URL}")
  ELSE Write(WriteHeader(JSON(rs), 200), "{success: Signed URL generated successfully}")

\* promhttp.Handler()
HandleMetrics(rs) ==
  Write(HeaderSet(rs, "Content-Type", "text/plain; version=0.0.4"), "# metrics exposition")

IsSignedUrlRoute(route) ==
  route \in {"HandleGenerateSignedUrl(prod)", "HandleGenerateSignedUrl(dev)"}

\* the handler the mux (or AuthMiddleware's next) calls
Handler(rs) ==
  LET s == [Stage(rs, "handler") EXCEPT !.handler = rs.route, !.st = Unwind(rs)]
  IN CASE rs.route = "HandleHealth" -> HandleHealth(s)
       [] rs.route = "promhttp" -> HandleMetrics(s)
       [] rs.route \in {"HandleUpload(prod)", "HandleUpload(dev)"} -> HandleUpload(s)
       [] OTHER -> HandleGenerateSignedUrl(s)

\* the labels MetricsMiddleware counts the request under
RequestLabels(rs) ==
  <<rs.r.method, rs.r.path, rs.statusCode, rs.r.host, rs.clientIP>>

\* the server finishes the response: a handler that wrote nothing answers 200
FinishRequest(rs) ==
  [rs EXCEPT !.st = "done",
             !.status = IF rs.status = 0 /\ ~rs.closed THEN 200 ELSE rs.status]

\* one step of the request on a connection, the shared metrics aside
Step(cfg, rs) ==
  CASE rs.st = "metrics" -> MetricsMiddlewareEnter(rs)
    [] rs.st = "cors"    -> CORSMiddleware(cfg.AllowedOrigins, rs)
    [] rs.st = "mux"     -> ServeMux(cfg, rs)
    [] rs.st = "apikey"  -> AuthMiddlewareKey(cfg.APIKey1, cfg.AllowedIPs, rs)
    [] rs.st = "ip"      -> AuthMiddlewareIP(cfg.AllowedIPs, rs)
    [] rs.st = "handler" -> Handler(rs)
    [] rs.st = "count"   -> [rs EXCEPT !.st = "observe"]
    [] rs.st = "observe" -> [rs EXCEPT !.st = "finish"]
    [] rs.st = "finish"  -> FinishRequest(rs)
    [] OTHER             -> rs

\* handler := MetricsMiddleware(CORSMiddleware(...)(authenticatedMux)) run to the end
RECURSIVE ServeFrom(_, _)
ServeFrom(cfg, rs) == IF rs.st = "done" THEN rs ELSE ServeFrom(cfg, Step(cfg, rs))

ServeHTTP(cfg, r) == ServeFrom(cfg, Fresh(r))

\* (*Counter).Inc on the cell of a vector, atomic
\* mutant: an increment that stores 1 in the cell instead of adding to it
Inc_LostUpdate(vec, labels) == (labels :> 1) @@ vec

Inc(vec, labels) == vec (+) SetToBag({labels})

(***************************************************************************)
(* Inputs                                                                  *)
(***************************************************************************)

Secret == "s3cret"

Request(method, path, apiKey, cf, xri, xff, remote, origin, hijack, backend) ==
  [ method |-> method, path |-> path, apiKey |-> apiKey, cfConnectingIP |-> cf,
    xRealIP |-> xri, xForwardedFor |-> xff, remoteAddr |-> remote, origin |-> origin,
    host |-> "img.example.com", hijack |-> hijack, backend |-> backend ]

Env(key, ips, origins) ==
  [GCS_API_KEY_1 |-> key, ALLOWED_IPS |-> ips, ALLOWED_ORIGINS |-> origins]

Methods == {"GET", "POST", "OPTIONS"}
Paths == ProtectedPaths \cup PublicPaths \cup {"/nope"}
Keys == {"", Secret, "wrong"}
Origins == {"", "https://example.com", "https://other.com"}
\* the transport: HTTP/2 (no Hijacker), HTTP/1.x, HTTP/1.x whose Hijack fails
Hijacks == {"none", "ok", "fails"}
Backends == {"ok", "malformed", "upstream"}

\* the gates: every method, path, key, origin and transport, two client identities
GateEnvs ==
  {Env(k, i, o) : k \in {"", Secret}, i \in {"", "203.0.113.0/24"},
                  o \in {"", "https://example.com"}}
GateRequests ==
  {Request(m, p, k, cf, "", "", "198.51.100.7:4711", o, h, b) :
     m \in Methods, p \in Paths, k \in Keys, cf \in {"", "203.0.113.5"},
     o \in Origins, h \in Hijacks, b \in Backends}

\* the CORS policy: every shape of ALLOWED_ORIGINS
CorsEnvs ==
  {Env(Secret, "", o) :
     o \in {"", "*", "https://example.com", "https://other.com", "https://example.com,",
            " https://example.com , https://other.com", "*,https://example.com", " "}}
CorsRequests ==
  {Request(m, p, Secret, "", "", "", "198.51.100.7:4711", o, "ok", "ok") :
     m \in {"GET", "OPTIONS"}, p \in {"/health", "/upload"}, o \in Origins \cup {"*"}}

\* client identity: every combination of the identity headers and peer addresses
IdentityEnvs == {Env(Secret, "1.1.1.1, 198.51.100.0/24", "")}
IdentityRequests ==
  {Request("POST", "/upload", Secret, cf, xri, xff, remote, "", "ok", "ok") :
     cf \in {"", "1.1.1.1"}, xri \in {"", "3.3.3.3"},
     xff \in {"", "2.2.2.2", " 2.2.2.2 , 9.9.9.9", ", 2.2.2.2", " "},
     remote \in {"198.51.100.7:4711", "10.0.0.9"}}

\* the allowlist: literal, CIDR and malformed entries against valid and invalid IPs
AllowlistEnvs ==
  {Env(Secret, i, "") :
     i \in {"203.0.113.0/24", "198.51.100.0/24", "203.0.113.5", "bad/cidr,203.0.113.5",
            "203.0.113.0/33, 203.0.113.128/25", "10.0.0.0/8 , 203.0.113.200",
            "not-an-ip", "203.0.113.05", "0.0.0.0/0", "/", "203.0.113.5/32,x/y", " "}}
AllowlistRequests ==
  {Request("POST", "/upload", Secret, cf, "", "", "198.51.100.7:4711", "", h, "ok") :
     cf \in {"203.0.113.5", "203.0.113.200", "198.51.100.7", "10.1.2.3", "not-an-ip",
             "203.0.113.05", ""},
     h \in {"none", "ok"}}

\* concurrent runs: requests that share label tuples, on two connections
ConcurrentEnvs == {Env(Secret, "", "")}
ConcurrentRequests ==
  {Request(m, p, k, "203.0.113.5", "", "", "198.51.100.7:4711", "", "ok", "ok") :
     m \in {"POST", "OPTIONS"}, p \in {"/upload", "/signedurl", "/metrics"},
     k \in {Secret, "wrong"}}

(***************************************************************************)
(* Init and the actions                                                    *)
(***************************************************************************)

\* no response writer is under test while the server runs
NoWriter == [w |-> Idle, pending |-> << >>, made |-> << >>]

Single(envs, requests) ==
  /\ config \in {LoadConfig(e) : e \in envs}
  /\ inbox \in {<<r>> : r \in requests}

Init ==
  /\ \/ Single(GateEnvs, GateRequests)
     \/ Single(CorsEnvs, CorsRequests)
     \/ Single(IdentityEnvs, IdentityRequests)
     \/ Single(AllowlistEnvs, AllowlistRequests)
     \/ /\ config \in {LoadConfig(e) : e \in ConcurrentEnvs}
        /\ inbox \in [1..MaxRequests -> ConcurrentRequests]
  /\ conns = [c \in Conns |-> Idle]
  /\ httpRequestsTotal = EmptyBag
  /\ httpRequestDuration = EmptyBag
  /\ signedURLCreatedTotal = EmptyBag
  /\ finished = EmptyBag
  /\ rw = NoWriter

Metrics == <<httpRequestsTotal, httpRequestDuration, signedURLCreatedTotal>>

\* the connection takes the stage's step; the shared metrics are not touched
Local(c) ==
  /\ conns' = [conns EXCEPT ![c] = Step(config, conns[c])]
  /\ UNCHANGED <<config, inbox, finished, rw>>

\* (*Server).Serve accepts the next request on the first free connection
Accept(c) ==
  /\ inbox # << >>
  /\ conns[c].st = "idle"
  /\ \A d \in Conns : d < c => conns[d].st # "idle"
  /\ conns' = [conns EXCEPT ![c] = Fresh(Head(inbox))]
  /\ inbox' = Tail(inbox)
  /\ UNCHANGED <<config, Metrics, finished, rw>>

EnterMetrics(c) == conns[c].st = "metrics" /\ Local(c) /\ UNCHANGED Metrics

RunCORS(c) == conns[c].st = "cors" /\ Local(c) /\ UNCHANGED Metrics

Dispatch(c) == conns[c].st = "mux" /\ Local(c) /\ UNCHANGED Metrics

CheckAPIKey(c) == conns[c].st = "apikey" /\ Local(c) /\ UNCHANGED Metrics

CheckIP(c) == conns[c].st = "ip" /\ Local(c) /\ UNCHANGED Metrics

\* the route's handler; a signed URL that was generated is counted
RunHandler(c) ==
  /\ conns[c].st = "handler"
  /\ Local(c)
  /\ signedURLCreatedTotal' =
       IF IsSignedUrlRoute(conns[c].route) /\ SignedUrlSucceeds(conns[c])
       THEN Inc(signedURLCreatedTotal, <<conns[c].r.host, getClientIP(conns[c].r)>>)
       ELSE signedURLCreatedTotal
  /\ UNCHANGED <<httpRequestsTotal, httpRequestDuration>>

\* httpRequestsTotal.WithLabelValues(...).Inc()
CountRequest(c) ==
  /\ conns[c].st = "count"
  /\ Local(c)
  /\ httpRequestsTotal' = Inc(httpRequestsTotal, RequestLabels(conns[c]))
  /\ UNCHANGED <<httpRequestDuration, signedURLCreatedTotal>>

\* defer timer.ObserveDuration()
ObserveDuration(c) ==
  /\ conns[c].st = "observe"
  /\ Local(c)
  /\ httpRequestDuration' = Inc(httpRequestDuration, <<conns[c].r.method, conns[c].r.path>>)
  /\ UNCHANGED <<httpRequestsTotal, signedURLCreatedTotal>>

Finish(c) == conns[c].st = "finish" /\ Local(c) /\ UNCHANGED Metrics

\* the response is out: the connection is free again; the exchange is kept
\* in the history of finished exchanges
Release(c) ==
  /\ conns[c].st = "done"
  /\ conns' = [conns EXCEPT ![c] = Idle]
  /\ finished' = finished (+) SetToBag({conns[c]})
  /\ UNCHANGED <<config, inbox, Metrics, rw>>

Next ==
  \E c \in Conns :
    \/ Accept(c)
    \/ EnterMetrics(c)
    \/ RunCORS(c)
    \/ Dispatch(c)
    \/ CheckAPIKey(c)
    \/ CheckIP(c)
    \/ RunHandler(c)
    \/ CountRequest(c)
    \/ ObserveDuration(c)
    \/ Finish(c)
    \/ Release(c)

Spec == Init /\ [][Next]_vars

(***************************************************************************)
(* The response wrapper on its own: a downstream layer that calls          *)
(* WriteHeader any number of times on a fresh *responseWriter              *)
(***************************************************************************)

\* WriteHeader calls one downstream layer makes at most
MaxCalls == 3

StatusCodes == {200, 204, 400, 404, 500}

CallSeqs == UNION {[1..n -> StatusCodes] : n \in 0..MaxCalls}

\* newResponseWriter(w): &responseWriter{w, http.StatusOK}
newResponseWriter(rs) == [rs EXCEPT !.wrapped = TRUE, !.statusCode = 200]

InitWriter ==
  /\ config = LoadConfig(Env("", "", ""))
  /\ inbox = << >>
  /\ conns = [c \in Conns |-> Idle]
  /\ httpRequestsTotal = EmptyBag
  /\ httpRequestDuration = EmptyBag
  /\ signedURLCreatedTotal = EmptyBag
  /\ finished = EmptyBag
  /\ rw \in {[w |-> newResponseWriter(Idle), pending |-> calls, made |-> << >>] :
               calls \in CallSeqs}

\* the downstream layer calls wrapped.WriteHeader(code)
CallWriteHeader ==
  /\ rw.pending # << >>
  /\ rw' = [w |-> WriteHeader(rw.w, Head(rw.pending)),
            pending |-> Tail(rw.pending),
            made |-> Append(rw.made, Head(rw.pending))]
  /\ UNCHANGED <<config, inbox, conns, Metrics, finished>>

NextWriter == CallWriteHeader

SpecWriter == InitWriter /\ [][NextWriter]_vars

(***************************************************************************)
(* Vocabulary of the properties                                            *)
(***************************************************************************)

Busy == {c \in Conns : conns[c].st # "idle"}
Done == {c \in Conns : conns[c].st = "done"}

Ran(rs, stage) == \E i \in 1..Len(rs.trace) : rs.trace[i] = stage

\* the protected handler each protected route stands for
ProtectedHandler(path) ==
  CASE path = "/upload" -> "HandleUpload(prod)"
    [] path = "/upload-dev" -> "HandleUpload(dev)"
    [] path = "/signedurl" -> "HandleGenerateSignedUrl(prod)"
    [] OTHER -> "HandleGenerateSignedUrl(dev)"

\* entry e of an allowlist admits the client IP string c
EntryAdmits(e, c) ==
  \/ Contains(e, "/") /\ ParseCIDR(e).ok /\ NetContains(ParseCIDR(e), ParseIP(c).ip)
  \/ ~Contains(e, "/") /\ e = c

\* the allowlist decision as the specification words it
AllowedBy(c, L) == ParseIP(c).ok /\ \E i \in 1..Len(L) : EntryAdmits(L[i], c)

\* the key and allowlist policy admits request r
Permitted(cfg, r) ==
  /\ r.apiKey # ""
  /\ r.apiKey = cfg.APIKey1
  /\ (Len(cfg.AllowedIPs) = 0 \/ AllowedBy(getClientIP(r), cfg.AllowedIPs))

\* a non-preflight request to a protected route of a server with a secret
Gated(rs) ==
  config.APIKey1 # "" /\ rs.r.path \in ProtectedPaths /\ rs.r.method # "OPTIONS"

IsPrefix(s, t) == Len(s) <= Len(t) /\ s = SubSeq(t, 1, Len(s))

(***************************************************************************)
(* C1: with a secret configured, a non-OPTIONS request to a protected      *)
(* route reaches that route's handler if and only if its X-API-Key is      *)
(* non-empty and equal to the secret and the allowlist is empty or admits  *)
(* the resolved client IP. No request reaches the handler before that      *)
(* holds, and a finished request that was permitted has reached it.        *)
(***************************************************************************)
C1_HandlerIffPermitted ==
  \A c \in Busy :
    Gated(conns[c]) =>
      /\ conns[c].handler # "" => /\ Permitted(config, conns[c].r)
                                  /\ conns[c].handler = ProtectedHandler(conns[c].r.path)
      /\ conns[c].st = "done" => (conns[c].handler # "" <=> Permitted(config, conns[c].r))

\* a request forwarded through both gates, and beside it one the key gate denied
C1_Witness ==
  \E c \in Done :
    /\ Gated(conns[c])
    /\ Len(config.AllowedIPs) > 0
    /\ conns[c].handler = ProtectedHandler(conns[c].r.path)

C1_WitnessDenied ==
  \E c \in Done : Gated(conns[c]) /\ conns[c].r.apiKey = "" /\ conns[c].handler = ""

(***************************************************************************)
(* C5: an OPTIONS request to any path is answered 204 with the three fixed *)
(* CORS headers and an empty body, and neither the mux, the API-key gate,  *)
(* the IP gate nor any handler runs for it.                                *)
(***************************************************************************)
C5_PreflightShortCircuits ==
  \A c \in Busy :
    conns[c].r.method = "OPTIONS" =>
      /\ IsPrefix(conns[c].trace, <<"metrics", "cors">>)
      /\ conns[c].handler = ""
      /\ conns[c].body = ""
      /\ ~conns[c].closed
      /\ conns[c].st = "done" =>
           /\ conns[c].trace = <<"metrics", "cors">>
           /\ conns[c].status = 204
           /\ {"Access-Control-Allow-Methods", "Access-Control-Allow-Headers",
               "Access-Control-Max-Age"} \subseteq DOMAIN conns[c].header
           /\ conns[c].header["Access-Control-Allow-Methods"] = "POST, GET, OPTIONS"
           /\ conns[c].header["Access-Control-Allow-Headers"] = "Content-Type, X-API-Key"
           /\ conns[c].header["Access-Control-Max-Age"] = "3600"

\* a finished preflight to a protected route, sent without a key
C5_Witness ==
  \E c \in Done :
    /\ conns[c].r.method = "OPTIONS"
    /\ conns[c].r.path \in ProtectedPaths
    /\ conns[c].r.apiKey = ""
    /\ config.APIKey1 # ""
    /\ conns[c].status = 204

KeyPasses(r) == r.apiKey # "" /\ r.apiKey = config.APIKey1

(***************************************************************************)
(* C6: the stages of one request run in the order metrics, CORS, route     *)
(* dispatch, API-key check, IP check, handler; what has run is a prefix of *)
(* that order (without the gates a route does not have) that ends at the   *)
(* first denial or short-circuit. The IP check runs only after the key     *)
(* check passed, the handler of a gated route only after both passed, and  *)
(* /health and /metrics never run either check.                            *)
(***************************************************************************)
C6_StagesInOrder ==
  \A c \in Busy :
    LET rs == conns[c]
        t  == rs.trace
    IN /\ \/ IsPrefix(t, <<"metrics", "cors", "mux", "apikey", "ip", "handler">>)
          \/ IsPrefix(t, <<"metrics", "cors", "mux", "apikey", "handler">>)
          \/ IsPrefix(t, <<"metrics", "cors", "mux", "handler">>)
       /\ Ran(rs, "ip") => KeyPasses(rs.r)
       /\ Ran(rs, "handler") /\ Gated(rs) =>
            /\ Ran(rs, "apikey") /\ KeyPasses(rs.r)
            /\ Len(config.AllowedIPs) > 0 =>
                 Ran(rs, "ip") /\ AllowedBy(getClientIP(rs.r), config.AllowedIPs)
       /\ Ran(rs, "apikey") /\ ~KeyPasses(rs.r) => t[Len(t)] = "apikey"
       /\ Ran(rs, "ip") /\ ~AllowedBy(getClientIP(rs.r), config.AllowedIPs) =>
            t[Len(t)] = "ip"
       /\ rs.r.method = "OPTIONS" => ~Ran(rs, "mux")
       /\ rs.r.path \in PublicPaths => ~Ran(rs, "apikey") /\ ~Ran(rs, "ip")

\* a request that ran all six stages
C6_Witness ==
  \E c \in Done :
    conns[c].trace = <<"metrics", "cors", "mux", "apikey", "ip", "handler">>

(***************************************************************************)
(* Denials and what the client observes                                    *)
(***************************************************************************)

\* the request was turned away by the API-key gate or the IP-allowlist gate
Denied(rs) ==
  /\ rs.st = "done"
  /\ rs.handler = ""
  /\ Ran(rs, "apikey")

\* what the client sees of a finished request
Observed(rs) ==
  [closed |-> rs.closed, status |-> rs.status, header |-> rs.header, body |-> rs.body]

(***************************************************************************)
(* C2: a request denied by the API-key gate or the IP-allowlist gate is    *)
(* answered exactly as the same request to a path with no route is:        *)
(* same connection fate, status, headers and body.                         *)
(***************************************************************************)
C2_DenialLooksUnrouted ==
  \A c \in Done :
    Denied(conns[c]) =>
      Observed(conns[c]) =
        Observed(ServeHTTP(config, [conns[c].r EXCEPT !.path = "/nope"]))

(***************************************************************************)
(* C3: in the composed server a request denied by either gate on a         *)
(* transport that can be hijacked has its connection closed with no status *)
(* line and no body; the bare 404 appears only when the transport cannot   *)
(* be hijacked or the hijack fails.                                        *)
(***************************************************************************)
C3_DenialClosesConnection ==
  \A c \in Done :
    Denied(conns[c]) =>
      IF conns[c].r.hijack = "ok"
      THEN conns[c].closed /\ conns[c].status = 0 /\ conns[c].body = ""
      ELSE ~conns[c].closed /\ conns[c].status = 404 /\ conns[c].body = ""

(***************************************************************************)
(* C4: with no secret configured every non-OPTIONS request to /upload,     *)
(* /upload-dev, /signedurl or /signedurl-dev reaches that route's handler, *)
(* whatever its X-API-Key.                                                 *)
(***************************************************************************)
C4_NoSecretExposesAllRoutes ==
  \A c \in Done :
    (config.APIKey1 = "" /\ conns[c].r.path \in ProtectedPaths
       /\ conns[c].r.method # "OPTIONS") =>
      conns[c].handler = ProtectedHandler(conns[c].r.path)

Wildcard(policy) == policy = <<"*">>

OriginMatches(origin, policy) ==
  Wildcard(policy) \/ \E i \in 1..Len(policy) : policy[i] = origin

HasEmptyEntry(policy) == \E i \in 1..Len(policy) : policy[i] = ""

ACAO == "Access-Control-Allow-Origin"

ReflectsIffMatches(rs) ==
  /\ ACAO \in DOMAIN rs.header <=> OriginMatches(rs.r.origin, config.AllowedOrigins)
  /\ ACAO \in DOMAIN rs.header => rs.header[ACAO] = rs.r.origin

(***************************************************************************)
(* C7: once CORS has run, the response carries Access-Control-Allow-Origin *)
(* if and only if the request's Origin matches the policy (the policy is   *)
(* the single entry "*", or the Origin equals a configured origin), and    *)
(* then its value is the request's Origin. As amended: a request with no   *)
(* Origin gets no such header from a non-wildcard policy that has no empty *)
(* entry.                                                                  *)
(***************************************************************************)
C7_AllowOriginIffMatch ==
  \A c \in Busy :
    Ran(conns[c], "cors") =>
      /\ ReflectsIffMatches(conns[c])
      /\ (conns[c].r.origin = "" /\ ~Wildcard(config.AllowedOrigins)
            /\ ~HasEmptyEntry(config.AllowedOrigins)) =>
           ACAO \notin DOMAIN conns[c].header

\* C7 as originally stated: a request with no Origin gets no such header from any
\* non-wildcard policy
C7_Original ==
  \A c \in Busy :
    Ran(conns[c], "cors") =>
      /\ ReflectsIffMatches(conns[c])
      /\ (conns[c].r.origin = "" /\ ~Wildcard(config.AllowedOrigins)) =>
           ACAO \notin DOMAIN conns[c].header

\* a mismatching Origin whose request was still forwarded without the header,
\* under a policy of several entries
C7_Witness ==
  \E c \in Done :
    /\ Len(config.AllowedOrigins) > 1
    /\ conns[c].r.origin # ""
    /\ ~OriginMatches(conns[c].r.origin, config.AllowedOrigins)
    /\ ACAO \notin DOMAIN conns[c].header
    /\ conns[c].handler # ""

OtherHeaders(rs) == [k \in DOMAIN rs.header \ {ACAO} |-> rs.header[k]]

(***************************************************************************)
(* C8: two non-OPTIONS requests that differ only in Origin get the same    *)
(* forward/deny decision, the same handler, status and body; their         *)
(* responses differ at most in Access-Control-Allow-Origin.                *)
(***************************************************************************)
C8_OriginOnlySoftDenial ==
  \A c \in Done :
    conns[c].r.method # "OPTIONS" =>
      \A o \in Origins \cup {"*"} :
        LET other == ServeHTTP(config, [conns[c].r EXCEPT !.origin = o])
        IN /\ other.handler = conns[c].handler
           /\ other.trace = conns[c].trace
           /\ other.status = conns[c].status
           /\ other.body = conns[c].body
           /\ other.closed = conns[c].closed
           /\ OtherHeaders(other) = OtherHeaders(conns[c])

\* a forwarded upload whose Origin the policy does not allow
C8_Witness ==
  \E c \in Done :
    /\ conns[c].r.origin = "https://other.com"
    /\ config.AllowedOrigins = <<"https://example.com">>
    /\ conns[c].handler = "HandleUpload(prod)"
    /\ conns[c].status = 200
    /\ ACAO \notin DOMAIN conns[c].header

\* the request got past the IP check
PassedIP(rs) == rs.st = "handler" \/ rs.handler # ""

Malformed(e) == Contains(e, "/") /\ ~ParseCIDR(e).ok

WellFormed(L) == SelectSeq(L, LAMBDA e : ~Malformed(e))

(***************************************************************************)
(* C9: the allowlist admits client IP c under list L if and only if c      *)
(* parses as an IP and some entry either contains "/", parses as CIDR and  *)
(* contains c, or contains no "/" and equals c. Entries with "/" that do   *)
(* not parse are skipped: the decision is that of the list without them.   *)
(***************************************************************************)
C9_AllowlistDecision ==
  \A c \in Busy :
    Ran(conns[c], "ip") =>
      /\ PassedIP(conns[c]) <=> AllowedBy(getClientIP(conns[c].r), config.AllowedIPs)
      /\ PassedIP(conns[c]) <=>
           AllowedBy(getClientIP(conns[c].r), WellFormed(config.AllowedIPs))

\* an IP admitted by the entry that follows a malformed CIDR entry
C9_Witness ==
  \E c \in Done :
    /\ Ran(conns[c], "ip")
    /\ Malformed(config.AllowedIPs[1])
    /\ PassedIP(conns[c])

Candidates(r) ==
  << r.cfConnectingIP,
     r.xRealIP,
     TrimSpace(Split(r.xForwardedFor, ",")[1]),
     IF SplitHostPort(r.remoteAddr).err THEN r.remoteAddr
     ELSE SplitHostPort(r.remoteAddr).host >>

FirstNonEmpty(cands) ==
  IF \A i \in 1..Len(cands) : cands[i] = "" THEN ""
  ELSE cands[CHOOSE i \in 1..Len(cands) :
               cands[i] # "" /\ \A j \in 1..(i - 1) : cands[j] = ""]

(***************************************************************************)
(* C10: the resolved client identity is the first non-empty candidate      *)
(* among CF-Connecting-IP, X-Real-IP, the trimmed first entry of           *)
(* X-Forwarded-For and the peer address without its port (the raw peer     *)
(* address when it has none).                                              *)
(***************************************************************************)
C10_FirstNonEmptyCandidate ==
  \A c \in Busy :
    conns[c].timed => conns[c].clientIP = FirstNonEmpty(Candidates(conns[c].r))

\* every exchange the server has taken so far: those sent, those in flight
InFlight == SetToBag({}) (+) [x \in {conns[c] : c \in Busy} |->
                                Cardinality({c \in Busy : conns[c] = x})]
Exchanges == finished (+) InFlight

\* how many of the exchanges satisfy P
HowMany(P(_)) ==
  LET keep == {x \in BagToSet(Exchanges) : P(x)}
  IN  BagCardinality([x \in keep |-> CopiesIn(x, Exchanges)])

\* the downstream layers have returned to the metrics layer
DownstreamReturned(rs) == rs.st \in {"observe", "finish", "done"}

\* the cell the request counter owes to an exchange
RequestCell(rs) ==
  <<rs.r.method, rs.r.path, rs.statusCode, rs.r.host, getClientIP(rs.r)>>

RequestCells ==
  BagToSet(httpRequestsTotal) \cup {RequestCell(x) : x \in BagToSet(Exchanges)}

(***************************************************************************)
(* C11: every exchange whose path is not /metrics (forwarded, denied,      *)
(* preflight or unrouted) adds exactly one to the request counter, in the  *)
(* cell (method, path, recorded status, host, resolved client IP), once    *)
(* the downstream layers have returned; no increment is lost, so after N   *)
(* such exchanges with the same labels, in any interleaving, the cell      *)
(* holds N.                                                                *)
(***************************************************************************)
C11_CountedExactlyOnce ==
  \A l \in RequestCells :
    LET Owed(x) == /\ x.r.path # "/metrics"
                   /\ DownstreamReturned(x)
                   /\ RequestCell(x) = l
    IN  CopiesIn(l, httpRequestsTotal) = HowMany(Owed)

\* two uploads answered 200 on two connections at once: their cell holds 2
C11_Witness ==
  /\ finished = EmptyBag
  /\ \A c \in Conns :
       /\ DownstreamReturned(conns[c])
       /\ conns[c].handler = "HandleUpload(prod)"
       /\ conns[c].r.method = "POST"
       /\ conns[c].statusCode = 200
  /\ CopiesIn(RequestCell(conns[1]), httpRequestsTotal) = 2

\* the cell the latency histogram owes to an exchange
DurationCell(rs) == <<rs.r.method, rs.r.path>>

DurationCells ==
  BagToSet(httpRequestDuration) \cup {DurationCell(x) : x \in BagToSet(Exchanges)}

\* the deferred observation of the exchange has run
TimerStopped(rs) == rs.st \in {"finish", "done"}

(***************************************************************************)
(* C12: requests to /metrics are left out of the instrumentation, whatever *)
(* their method: no cell of the request counter and no cell of the latency *)
(* histogram carries the path /metrics; every other request is seen by the *)
(* metrics layer, which times it and counts it.                            *)
(***************************************************************************)
C12_MetricsPathExcluded ==
  /\ \A l \in BagToSet(httpRequestsTotal) : l[2] # "/metrics"
  /\ \A h \in BagToSet(httpRequestDuration) : h[2] # "/metrics"
  /\ \A h \in DurationCells :
       LET Timed(x) == /\ x.r.path # "/metrics"
                       /\ TimerStopped(x)
                       /\ DurationCell(x) = h
       IN  CopiesIn(h, httpRequestDuration) = HowMany(Timed)
  /\ \A x \in BagToSet(finished) :
       x.r.path # "/metrics" =>
         /\ CopiesIn(RequestCell(x), httpRequestsTotal) >= 1
         /\ CopiesIn(DurationCell(x), httpRequestDuration) >= 1

\* a POST of /metrics and a counted request have both been answered
C12_Witness ==
  /\ \E x \in BagToSet(finished) : x.r.path = "/metrics" /\ x.r.method = "POST"
  /\ \E x \in BagToSet(finished) : x.r.path # "/metrics"
  /\ BagCardinality(httpRequestsTotal) = 1
  /\ BagCardinality(httpRequestDuration) = 1

\* next.ServeHTTP(wrapped, r) has returned: the label is read now
DownstreamDone == rw.pending = << >>

(***************************************************************************)
(* C13: the response wrapper records the first status code set: when the   *)
(* downstream layers call WriteHeader more than once, the status read for  *)
(* the label is the code of the first call; when they never call it, the   *)
(* status read is 200.                                                     *)
(***************************************************************************)
C13_RecordsFirstCode ==
  DownstreamDone =>
    rw.w.statusCode = IF rw.made = << >> THEN 200 ELSE rw.made[1]

\* the cell the signed-URL counter owes to an exchange
SignedURLCell(rs) == <<rs.r.host, getClientIP(rs.r)>>

SignedURLCells ==
  BagToSet(signedURLCreatedTotal) \cup {SignedURLCell(x) : x \in BagToSet(Exchanges)}

\* the exchange reached a signed-URL handler, which got a URL from storage
GotSignedURL(rs) ==
  /\ rs.handler \in {"HandleGenerateSignedUrl(prod)", "HandleGenerateSignedUrl(dev)"}
  /\ rs.r.path \in {"/signedurl", "/signedurl-dev"}
  /\ rs.r.method = "POST"
  /\ rs.r.backend = "ok"

(***************************************************************************)
(* C14: the signed-URL counter gains exactly one, in the cell (host,       *)
(* resolved client IP), for each request to a signed-URL route for which   *)
(* storage returned a URL, and never otherwise: not for uploads, denied,   *)
(* preflight or wrong-method requests, nor for a bad body or a failed      *)
(* generation.                                                             *)
(***************************************************************************)
C14_SignedURLCountedOnSuccessOnly ==
  \A l \in SignedURLCells :
    LET Owed(x) == GotSignedURL(x) /\ SignedURLCell(x) = l
    IN  CopiesIn(l, signedURLCreatedTotal) = HowMany(Owed)

\* two signed URLs issued on two connections at once: their cell holds 2
C14_Witness ==
  /\ finished = EmptyBag
  /\ \A c \in Conns : GotSignedURL(conns[c]) /\ conns[c].status = 200
  /\ CopiesIn(SignedURLCell(conns[1]), signedURLCreatedTotal) = 2

\* a failed generation, answered 500, leaves the counter empty
C14_WitnessFailure ==
  \E c \in Done :
    /\ conns[c].handler = "HandleGenerateSignedUrl(prod)"
    /\ conns[c].r.backend = "upstream"
    /\ conns[c].status = 500
    /\ signedURLCreatedTotal = EmptyBag

\* peer addresses a request may come from, inside and outside the allowlists
Peers == {"198.51.100.7:4711", "10.0.0.9", "203.0.113.5:443", "1.1.1.1:80"}

PeerHost(r) == Candidates(r)[4]

\* the value of the identity header of highest priority that is present
TopHeader(r) ==
  IF r.cfConnectingIP # "" THEN r.cfConnectingIP
  ELSE IF r.xRealIP # "" THEN r.xRealIP
  ELSE r.xForwardedFor

\* a request with the right key at a gate that has an allowlist
AtAllowlist(rs) == Gated(rs) /\ KeyPasses(rs.r) /\ Len(config.AllowedIPs) > 0

Forwarded(rs) == rs.handler # ""

(***************************************************************************)
(* C15: the allowlist decision depends on the resolved identity only, and  *)
(* that comes from the client's headers when one is present: requests      *)
(* that agree on the identity header of highest priority (CF-Connecting-IP,*)
(* else X-Real-IP, else X-Forwarded-For) get the same decision whatever    *)
(* peer they come from, so a request with the right key from a peer        *)
(* outside the allowlist is forwarded when that header holds an            *)
(* allowlisted IP.                                                         *)
(***************************************************************************)
C15_HeaderIdentityDecides ==
  \A c \in Done :
    LET rs == conns[c] IN
    (AtAllowlist(rs) /\ TopHeader(rs.r) # "") =>
      /\ \A peer \in Peers :
           Forwarded(ServeHTTP(config, [rs.r EXCEPT !.remoteAddr = peer]))
             = Forwarded(rs)
      /\ AllowedBy(TopHeader(rs.r), config.AllowedIPs) => Forwarded(rs)

\* forwarded on a spoofable header although the peer is outside the allowlist
C15_Witness ==
  \E c \in Done :
    /\ AtAllowlist(conns[c])
    /\ AllowedBy(conns[c].r.cfConnectingIP, config.AllowedIPs)
    /\ ~AllowedBy(PeerHost(conns[c].r), config.AllowedIPs)
    /\ conns[c].handler = ProtectedHandler(conns[c].r.path)

\* denied on a header although the peer is inside the allowlist
C15_WitnessDenied ==
  \E c \in Done :
    /\ AtAllowlist(conns[c])
    /\ TopHeader(conns[c].r) # ""
    /\ AllowedBy(PeerHost(conns[c].r), config.AllowedIPs)
    /\ ~Forwarded(conns[c])

\* a server with an allowlist but no secret
AllowlistWithoutSecret == config.APIKey1 = "" /\ Len(config.AllowedIPs) > 0

(***************************************************************************)
(* C16: the IP allowlist is enforced only together with the API-key gate:  *)
(* with an empty secret and a non-empty allowlist no request ever reaches  *)
(* the key check or the allowlist check, and a request to /upload reaches  *)
(* the upload handler even from a client IP that no entry admits.          *)
(***************************************************************************)
C16_AllowlistNeedsSecret ==
  AllowlistWithoutSecret =>
    \A c \in Busy :
      /\ ~Ran(conns[c], "apikey")
      /\ ~Ran(conns[c], "ip")
      /\ (conns[c].st = "done" /\ conns[c].r.path = "/upload"
            /\ conns[c].r.method # "OPTIONS")
           => conns[c].handler = "HandleUpload(prod)"

\* an upload served to a client IP outside the configured allowlist
C16_Witness ==
  /\ AllowlistWithoutSecret
  /\ \E c \in Done :
       /\ conns[c].r.path = "/upload"
       /\ ~AllowedBy(getClientIP(conns[c].r), config.AllowedIPs)
       /\ conns[c].handler = "HandleUpload(prod)"

====
